---- MODULE Spec2Model ----
(***************************************************************************)
(* A model of user_management_system.py: the User hierarchy with its       *)
(* class-level active_user_count, the three decorators (log_execution,     *)
(* time_execution, require_admin), UserRepository.stream_users and         *)
(* find_user.                                                              *)
(*                                                                         *)
(* Text is a sequence of one-character strings, so that str.split and      *)
(* int() are computed and not assumed.  An instance is a record held in    *)
(* the sequence users (the instances constructed so far, in construction   *)
(* order); a reference to an instance is its index in users.  What a call  *)
(* does is a record [outcome, out, calls]: the value returned or the       *)
(* exception raised, the lines printed, in order, and the number of times  *)
(* the innermost (undecorated) function body ran.                          *)
(***************************************************************************)
EXTENDS Integers, Sequences, FiniteSets, TLC

VARIABLES
    users,              \* the instances constructed so far
    active_user_count,  \* User.active_user_count
    last,               \* the most recent call and what it did
    input,              \* the arguments of the call under study (pure functions)
    gens                \* the generator objects stream_users() has returned

vars == <<users, active_user_count, last, input, gens>>

----------------------------------------------------------------------------
(* Bounds *)

MaxUsers == 2       \* instances constructed in one behaviour
MaxId == 2          \* user_id ranges over 1..MaxId
MaxTextLen == 5     \* length of the text handed to from_string
MaxStack == 3       \* decorators stacked on one function
MaxListLen == 2     \* length of the list handed to find_user
MaxRepoLen == 3     \* length of the list held by a UserRepository
MaxGens == 2        \* generators alive at once

----------------------------------------------------------------------------
(* Values *)

NoneValue == [type |-> "None"]
IntValue(n) == [type |-> "int", n |-> n]
BoolValue(b) == [type |-> "bool", b |-> b]
Ref(i) == [type |-> "user", ref |-> i]

Return(v) == [kind |-> "return", val |-> v]
Raise(e) == [kind |-> "raise", val |-> [type |-> e]]

Classes == {"User", "AdminUser", "RegularUser"}
Variants == {"AdminUser", "RegularUser"}

Names == {<<"a">>, <<"b">>}
Emails == {<<"a", "@", "b", ".", "c">>, <<"b">>}

----------------------------------------------------------------------------
(* Decorators *)

\* log_execution printing its notice after the call instead of before it.
log_execution_late(enabled, name, inner) ==
    [outcome |-> inner.outcome,
     out     |-> IF enabled /\ inner.outcome.kind = "return"
                 THEN inner.out \o <<"[LOG] Executing " \o name>>
                 ELSE inner.out,
     calls   |-> inner.calls]

\* What the wrapper built by log_execution(enabled)(func) does when called,
\* inner being what func does when called and name being func.__name__.
log_execution(enabled, name, inner) ==
    [outcome |-> inner.outcome,
     out     |-> IF enabled
                 THEN <<"[LOG] Executing " \o name>> \o inner.out
                 ELSE inner.out,
     calls   |-> inner.calls]

\* time_execution without its "return result".
time_execution_no_return(name, inner) ==
    IF inner.outcome.kind = "raise"
    THEN inner
    ELSE [outcome |-> Return(NoneValue),
          out     |-> inner.out \o <<"[TIME] " \o name \o " took">>,
          calls   |-> inner.calls]

\* The wrapper built by time_execution(func): the notice is printed after func
\* returns, and not at all when func raises (the elapsed time is not modelled).
time_execution(name, inner) ==
    IF inner.outcome.kind = "raise"
    THEN inner
    ELSE [outcome |-> inner.outcome,
          out     |-> inner.out \o <<"[TIME] " \o name \o " took">>,
          calls   |-> inner.calls]

get_role_by_activity(self) ==
    IF self.cls = "AdminUser" /\ self.active THEN "ADMIN" ELSE "REGULAR"

\* AdminUser.get_role / RegularUser.get_role
get_role(self) ==
    IF self.cls = "AdminUser" THEN "ADMIN" ELSE "REGULAR"

\* The wrapper built by require_admin(func), called on self.
require_admin(self, inner) ==
    IF get_role(self) # "ADMIN"
    THEN [outcome |-> Raise("PermissionError"), out |-> <<>>, calls |-> 0]
    ELSE inner

\* The body of AdminUser.delete_user.
delete_user_body ==
    [outcome |-> Return(NoneValue), out |-> <<"User deleted">>, calls |-> 1]

delete_user_log_outermost(self) ==
    log_execution(TRUE, "delete_user", require_admin(self, delete_user_body))

\* AdminUser.delete_user as decorated: @require_admin over @log_execution().
delete_user(self) ==
    require_admin(self, log_execution(TRUE, "delete_user", delete_user_body))

----------------------------------------------------------------------------
(* User *)

init_uncounted(cls, user_id, name, email, count) ==
    [self  |-> [cls |-> cls, user_id |-> user_id, name |-> name,
                email |-> email, active |-> TRUE],
     count |-> IF cls = "AdminUser" THEN count + 1 ELSE count]

\* User.__init__: the new instance and the new value of active_user_count.
__init__(cls, user_id, name, email, count) ==
    [self  |-> [cls |-> cls, user_id |-> user_id, name |-> name,
                email |-> email, active |-> TRUE],
     count |-> count + 1]

\* cls(user_id, name, email): User is abstract and cannot be instantiated.
instantiate(cls, user_id, name, email, heap, count) ==
    IF cls \notin Variants
    THEN [outcome |-> Raise("TypeError"), users |-> heap, count |-> count]
    ELSE LET new == __init__(cls, user_id, name, email, count)
         IN [outcome |-> Return(Ref(Len(heap) + 1)),
             users   |-> Append(heap, new.self),
             count   |-> new.count]

deactivate_unguarded(self, count) ==
    [self |-> [self EXCEPT !.active = FALSE], count |-> count - 1]

\* User.deactivate
deactivate(self, count) ==
    IF self.active
    THEN [self |-> [self EXCEPT !.active = FALSE], count |-> count - 1]
    ELSE [self |-> self, count |-> count]

----------------------------------------------------------------------------
(* Text: str.split(",") and int() *)

Digits == {"0", "1", "2", "3", "4", "5", "6", "7", "8", "9"}

DigitValue(c) ==
    CASE c = "0" -> 0 [] c = "1" -> 1 [] c = "2" -> 2 [] c = "3" -> 3
      [] c = "4" -> 4 [] c = "5" -> 5 [] c = "6" -> 6 [] c = "7" -> 7
      [] c = "8" -> 8 [] c = "9" -> 9

RECURSIVE split(_)
\* data.split(","): the pieces between the commas, empty pieces included.
split(s) ==
    IF \A i \in 1..Len(s) : s[i] # ","
    THEN <<s>>
    ELSE LET i == CHOOSE k \in 1..Len(s) :
                      s[k] = "," /\ \A j \in 1..(k - 1) : s[j] # ","
         IN <<SubSeq(s, 1, i - 1)>> \o split(SubSeq(s, i + 1, Len(s)))

RECURSIVE lstrip(_)
lstrip(s) == IF s # <<>> /\ Head(s) = " " THEN lstrip(Tail(s)) ELSE s

RECURSIVE rstrip(_)
rstrip(s) ==
    IF s # <<>> /\ s[Len(s)] = " " THEN rstrip(SubSeq(s, 1, Len(s) - 1)) ELSE s

\* The part of the literal after the surrounding whitespace and the sign.
unsigned(s) ==
    LET t == rstrip(lstrip(s))
    IN IF t # <<>> /\ Head(t) \in {"+", "-"} THEN Tail(t) ELSE t

negative(s) ==
    LET t == rstrip(lstrip(s)) IN t # <<>> /\ Head(t) = "-"

\* Whether int(s) accepts s (base 10): optional surrounding whitespace, an
\* optional sign, then digits, single underscores allowed between digits.
int_accepts(s) ==
    LET d == unsigned(s)
    IN /\ d # <<>>
       /\ \A i \in 1..Len(d) : d[i] \in Digits \cup {"_"}
       /\ d[1] # "_"
       /\ d[Len(d)] # "_"
       /\ \A i \in 1..(Len(d) - 1) : ~(d[i] = "_" /\ d[i + 1] = "_")

RECURSIVE digits_value(_, _)
digits_value(d, acc) ==
    IF d = <<>> THEN acc
    ELSE IF Head(d) = "_" THEN digits_value(Tail(d), acc)
    ELSE digits_value(Tail(d), 10 * acc + DigitValue(Head(d)))

\* int(s), for an s that int() accepts.
int(s) ==
    LET v == digits_value(unsigned(s), 0)
    IN IF negative(s) THEN 0 - v ELSE v

from_string_first_three(cls, data, heap, count) ==
    LET fields == split(data)
    IN IF Len(fields) < 3 \/ ~int_accepts(fields[1])
       THEN [outcome |-> Raise("ValueError"), users |-> heap, count |-> count]
       ELSE instantiate(cls, int(fields[1]), fields[2], fields[3], heap, count)

\* User.from_string: the unpacking into three names raises ValueError unless
\* there are exactly three fields, int() raises ValueError on a field it does
\* not accept, and only then is cls called.
from_string(cls, data, heap, count) ==
    LET fields == split(data)
    IN IF Len(fields) # 3
       THEN [outcome |-> Raise("ValueError"), users |-> heap, count |-> count]
       ELSE IF ~int_accepts(fields[1])
       THEN [outcome |-> Raise("ValueError"), users |-> heap, count |-> count]
       ELSE instantiate(cls, int(fields[1]), fields[2], fields[3], heap, count)

----------------------------------------------------------------------------
(* The life of the instances: construction, parsing, deactivation, roles and
   the gated delete operation *)

\* The arguments instances are constructed with in the life-cycle
\* specification, and the texts handed to from_string there.
SampleArgs ==
    { [user_id |-> 1, name |-> <<"a">>, email |-> <<"a", "@", "b", ".", "c">>],
      [user_id |-> 2, name |-> <<"b">>, email |-> <<"b">>] }

SampleTexts ==
    { <<"1", ",", "a", ",", "a", "@", "b", ".", "c">>,
      <<"2", ",", "b", ",", "b">>,
      <<"x", ",", "y">>,
      <<"a", ",", "b", ",", "c">>,
      <<"1", ",", "a", ",", "b", ",", "c">> }

Init ==
    /\ users = <<>>
    /\ active_user_count = 0
    /\ last = [op |-> "none"]
    /\ input = [op |-> "none"]
    /\ gens = <<>>

\* cls(user_id, name, email)
Construct(cls, user_id, name, email) ==
    /\ LET r == instantiate(cls, user_id, name, email, users, active_user_count)
       IN /\ Len(r.users) <= MaxUsers
          /\ users' = r.users
          /\ active_user_count' = r.count
          /\ last' = [op |-> "construct", cls |-> cls, outcome |-> r.outcome]
    /\ UNCHANGED <<input, gens>>

\* cls.from_string(data)
FromString(cls, data) ==
    /\ LET r == from_string(cls, data, users, active_user_count)
       IN /\ Len(r.users) <= MaxUsers
          /\ users' = r.users
          /\ active_user_count' = r.count
          /\ last' = [op |-> "from_string", cls |-> cls, data |-> data,
                      outcome |-> r.outcome]
    /\ UNCHANGED <<input, gens>>

\* users[i].deactivate()
Deactivate(i) ==
    /\ i \in DOMAIN users
    /\ LET r == deactivate(users[i], active_user_count)
       IN /\ users' = [users EXCEPT ![i] = r.self]
          /\ active_user_count' = r.count
          /\ last' = [op |-> "deactivate", self |-> i,
                      was_active |-> users[i].active,
                      outcome |-> Return(NoneValue)]
    /\ UNCHANGED <<input, gens>>

StrValue(s) == [type |-> "str", s |-> s]

\* users[i].get_role()
GetRole(i) ==
    /\ i \in DOMAIN users
    /\ last' = [op |-> "get_role", self |-> i,
                outcome |-> Return(StrValue(get_role(users[i])))]
    /\ UNCHANGED <<users, active_user_count, input, gens>>

\* self.delete_user looked up on the instance: only AdminUser defines it.
bound_delete_user(self) ==
    IF self.cls = "AdminUser"
    THEN delete_user(self)
    ELSE [outcome |-> Raise("AttributeError"), out |-> <<>>, calls |-> 0]

\* users[i].delete_user()
DeleteUserMethod(i) ==
    /\ i \in DOMAIN users
    /\ LET r == bound_delete_user(users[i])
       IN last' = [op |-> "delete_user", via |-> "method", self |-> i,
                   outcome |-> r.outcome, out |-> r.out, calls |-> r.calls]
    /\ UNCHANGED <<users, active_user_count, input, gens>>

\* AdminUser.delete_user(users[i]): the decorated function applied to an
\* object of either variant.
DeleteUserFunction(i) ==
    /\ i \in DOMAIN users
    /\ LET r == delete_user(users[i])
       IN last' = [op |-> "delete_user", via |-> "function", self |-> i,
                   outcome |-> r.outcome, out |-> r.out, calls |-> r.calls]
    /\ UNCHANGED <<users, active_user_count, input, gens>>

Next ==
    \/ \E cls \in Classes, a \in SampleArgs :
           Construct(cls, a.user_id, a.name, a.email)
    \/ \E cls \in Classes, data \in SampleTexts : FromString(cls, data)
    \/ \E i \in 1..MaxUsers : Deactivate(i)
    \/ \E i \in 1..MaxUsers : GetRole(i)
    \/ \E i \in 1..MaxUsers : DeleteUserMethod(i)
    \/ \E i \in 1..MaxUsers : DeleteUserFunction(i)

Spec == Init /\ [][Next]_vars

----------------------------------------------------------------------------
(* from_string on every short text *)

Alphabet == {"1", "2", "-", " ", "a", ","}

Texts == UNION {[1..n -> Alphabet] : n \in 0..MaxTextLen}

InitParse ==
    /\ users = <<>>
    /\ active_user_count = 0
    /\ last = [op |-> "none"]
    /\ input \in {[op |-> "from_string", cls |-> c, data |-> t] :
                      c \in Classes, t \in Texts}
    /\ gens = <<>>

\* input.cls.from_string(input.data)
ParseInput == FromString(input.cls, input.data)

NextParse == ParseInput

SpecParse == InitParse /\ [][NextParse]_vars

----------------------------------------------------------------------------
(* Calls of the pure parts: decorated functions, comparisons, find_user *)

Decorators ==
    {"log_execution(True)", "log_execution(False)", "time_execution", "require_admin"}

Stacks == UNION {[1..n -> Decorators] : n \in 0..MaxStack}

RECURSIVE decorated(_, _, _)
\* What f does when called on self once the decorators of stack are applied
\* to it, stack[1] being the outermost (the topmost @ line).
decorated(stack, self, f) ==
    IF stack = <<>> THEN f.body
    ELSE LET inner == decorated(Tail(stack), self, f)
             d == Head(stack)
         IN CASE d = "log_execution(True)" -> log_execution(TRUE, f.name, inner)
              [] d = "log_execution(False)" -> log_execution(FALSE, f.name, inner)
              [] d = "time_execution" -> time_execution(f.name, inner)
              [] d = "require_admin" -> require_admin(self, inner)

\* The functions that get decorated: each prints one line, then returns a value
\* or raises.
Functions ==
    {[name |-> "op", body |-> [outcome |-> o, out |-> <<"op ran">>, calls |-> 1]] :
         o \in {Return(NoneValue), Return(IntValue(7)),
                Raise("ValueError"), Raise("PermissionError")}}

UserValues ==
    [cls : Variants, user_id : 1..MaxId, name : Names, email : Emails,
     active : BOOLEAN]

\* The objects a decorated function is called on.
Callers ==
    {u \in UserValues : u.user_id = 1 /\ u.name = <<"a">> /\ u.email = <<"b">>}

eq_by_id_and_name(self, other) ==
    self.user_id = other.user_id /\ self.name = other.name

\* User.__eq__
__eq__(self, other) == self.user_id = other.user_id

\* User.__lt__
__lt__(self, other) == self.user_id < other.user_id

RECURSIVE find_user_from(_, _, _)
\* The loop of find_user from position i on; examined counts the elements whose
\* user_id the loop read.
find_user_from(list, user_id, i) ==
    IF i > Len(list)
    THEN [outcome |-> Return(NoneValue), out |-> <<"User not found">>,
          examined |-> Len(list)]
    ELSE IF list[i].user_id = user_id
    THEN [outcome |-> Return(Ref(i)), out |-> <<>>, examined |-> i]
    ELSE find_user_from(list, user_id, i + 1)

RECURSIVE find_last_from(_, _, _)
find_last_from(list, user_id, i) ==
    IF i < 1
    THEN [outcome |-> Return(NoneValue), out |-> <<"User not found">>,
          examined |-> Len(list)]
    ELSE IF list[i].user_id = user_id
    THEN [outcome |-> Return(Ref(i)), out |-> <<>>, examined |-> Len(list) - i + 1]
    ELSE find_last_from(list, user_id, i - 1)

find_user_backwards(list, user_id) == find_last_from(list, user_id, Len(list))

\* find_user(users, user_id); the user returned is named by its position in
\* the list.
find_user(list, user_id) == find_user_from(list, user_id, 1)

\* The users put in the lists handed to find_user.
ListUsers == {u \in UserValues : u.email = <<"b">> /\ u.active}

Lists == UNION {[1..n -> ListUsers] : n \in 0..MaxListLen}

WrapInputs ==
    {[op |-> "decorated", stack |-> s, self |-> u, f |-> f] :
         s \in Stacks, u \in Callers, f \in Functions}

CompareInputs ==
    {[op |-> "compare", self |-> u, other |-> v] : u \in UserValues, v \in UserValues}

FindInputs ==
    {[op |-> "find_user", users |-> l, user_id |-> n] : l \in Lists, n \in 1..MaxId}

InitCalls ==
    /\ users = <<>>
    /\ active_user_count = 0
    /\ last = [op |-> "none"]
    /\ input \in WrapInputs \cup CompareInputs \cup FindInputs
    /\ gens = <<>>

\* The decorated input.f called on input.self.
CallDecorated ==
    /\ input.op = "decorated"
    /\ LET r == decorated(input.stack, input.self, input.f)
       IN last' = [op |-> "decorated", outcome |-> r.outcome, out |-> r.out,
                   calls |-> r.calls]
    /\ UNCHANGED <<users, active_user_count, input, gens>>

\* input.f called as it is.
CallBare ==
    /\ input.op = "decorated"
    /\ LET r == input.f.body
       IN last' = [op |-> "bare", outcome |-> r.outcome, out |-> r.out,
                   calls |-> r.calls]
    /\ UNCHANGED <<users, active_user_count, input, gens>>

\* input.self == input.other
CompareEq ==
    /\ input.op = "compare"
    /\ last' = [op |-> "__eq__",
                outcome |-> Return(BoolValue(__eq__(input.self, input.other)))]
    /\ UNCHANGED <<users, active_user_count, input, gens>>

\* input.self < input.other
CompareLt ==
    /\ input.op = "compare"
    /\ last' = [op |-> "__lt__",
                outcome |-> Return(BoolValue(__lt__(input.self, input.other)))]
    /\ UNCHANGED <<users, active_user_count, input, gens>>

\* find_user(input.users, input.user_id)
FindUser ==
    /\ input.op = "find_user"
    /\ LET r == find_user(input.users, input.user_id)
       IN last' = [op |-> "find_user", outcome |-> r.outcome, out |-> r.out,
                   examined |-> r.examined]
    /\ UNCHANGED <<users, active_user_count, input, gens>>

NextCalls ==
    \/ CallDecorated
    \/ CallBare
    \/ CompareEq
    \/ CompareLt
    \/ FindUser

SpecCalls == InitCalls /\ [][NextCalls]_vars

----------------------------------------------------------------------------
(* UserRepository *)

\* The instances main() builds before it makes the repository.
MainUsers ==
    << [cls |-> "AdminUser", user_id |-> 1, name |-> <<"a">>,
        email |-> <<"b">>, active |-> TRUE],
       [cls |-> "RegularUser", user_id |-> 2, name |-> <<"b">>,
        email |-> <<"b">>, active |-> TRUE] >>

\* The lists a repository is built on: references to the instances, in any
\* order, repeated or left out.
RepoLists == UNION {[1..n -> DOMAIN MainUsers] : n \in 0..MaxRepoLen}

\* UserRepository(input.users) over the instances of MainUsers.
InitRepo ==
    /\ users = MainUsers
    /\ active_user_count = Len(MainUsers)
    /\ last = [op |-> "none"]
    /\ input \in {[op |-> "repository", users |-> l] : l \in RepoLists}
    /\ gens = <<>>

\* The generator object a call of stream_users returns: its body has not
\* started, pos is the list position the for loop reads next.
new_generator == [pos |-> 1, done |-> FALSE, yielded |-> <<>>]

resume_shared_cursor(list, g, all) ==
    LET pos == 1 + Len(all[1].yielded)
    IN IF g.done \/ pos > Len(list)
       THEN [gen |-> [g EXCEPT !.done = TRUE], outcome |-> Raise("StopIteration")]
       ELSE [gen |-> [g EXCEPT !.pos = pos + 1,
                               !.yielded = Append(g.yielded, list[pos])],
             outcome |-> Return(Ref(list[pos]))]

\* next(g) on a generator of stream_users over list: the for loop yields
\* list[pos] while there is one, then the generator is finished for good.
resume(list, g, all) ==
    IF g.done \/ g.pos > Len(list)
    THEN [gen |-> [g EXCEPT !.done = TRUE], outcome |-> Raise("StopIteration")]
    ELSE [gen |-> [g EXCEPT !.pos = g.pos + 1,
                            !.yielded = Append(g.yielded, list[g.pos])],
          outcome |-> Return(Ref(list[g.pos]))]

\* repo.stream_users()
StreamUsers ==
    /\ Len(gens) < MaxGens
    /\ gens' = Append(gens, new_generator)
    /\ last' = [op |-> "stream_users", gen |-> Len(gens) + 1]
    /\ UNCHANGED <<users, active_user_count, input>>

\* next(gens[k])
NextUser(k) ==
    /\ k \in DOMAIN gens
    /\ LET r == resume(input.users, gens[k], gens)
       IN /\ gens' = [gens EXCEPT ![k] = r.gen]
          /\ last' = [op |-> "next", gen |-> k, outcome |-> r.outcome]
    /\ UNCHANGED <<users, active_user_count, input>>

NextRepo ==
    \/ StreamUsers
    \/ \E k \in 1..MaxGens : NextUser(k)

SpecRepo == InitRepo /\ [][NextRepo]_vars

----------------------------------------------------------------------------
(* Properties, checked under Spec *)

C1_Step ==
    /\ Len(users') # Len(users) =>
          /\ Len(users') = Len(users) + 1
          /\ users'[Len(users')].cls \in Variants
          /\ users'[Len(users')].active
          /\ active_user_count' = active_user_count + 1
    /\ last'.op = "deactivate" =>
          LET i == last'.self
          IN IF users[i].active
             THEN /\ ~users'[i].active
                  /\ active_user_count' = active_user_count - 1
             ELSE /\ ~users'[i].active
                  /\ active_user_count' = active_user_count

\* C1: a step that constructs an instance (of either variant, directly or by
\* from_string) adds 1 to active_user_count and leaves the instance active; a
\* deactivate() on an active instance subtracts 1 and clears its flag; a
\* deactivate() on an inactive instance changes neither the count nor the flag.
C1_CountPerCall == [][C1_Step]_vars

\* An instance has been deactivated a second time while another is still active.
C1_Witness ==
    /\ last.op = "deactivate"
    /\ ~last.was_active
    /\ Len(users) = 2
    /\ active_user_count = 1

\* C2: the decorated delete_user called on an object whose get_role() is not
\* "ADMIN" raises PermissionError, prints neither the "[LOG] Executing" line
\* nor "User deleted", and never runs the body.
C2_GateBeforeLog ==
    (last.op = "delete_user" /\ last.via = "function"
        /\ users[last.self].cls = "RegularUser") =>
        /\ last.outcome = Raise("PermissionError")
        /\ last.out = <<>>
        /\ last.calls = 0

\* The decorated delete_user has been called on a RegularUser.
C2_Witness ==
    /\ last.op = "delete_user"
    /\ last.via = "function"
    /\ users[last.self].cls = "RegularUser"
    /\ last.outcome.kind = "raise"

\* C3: delete_user() on an AdminUser returns normally and prints exactly the
\* logging line and then the deletion line, the body running once.
C3_LogThenDelete ==
    (last.op = "delete_user" /\ users[last.self].cls = "AdminUser") =>
        /\ last.outcome = Return(NoneValue)
        /\ last.out = <<"[LOG] Executing delete_user", "User deleted">>
        /\ last.calls = 1

\* An AdminUser's delete_user() has run.
C3_Witness ==
    /\ last.op = "delete_user"
    /\ last.via = "method"
    /\ users[last.self].cls = "AdminUser"
    /\ Len(last.out) = 2

\* C9: every AdminUser reports "ADMIN" and every RegularUser "REGULAR", active
\* or not, and a delete_user() made through an instance's own method never
\* ends in PermissionError.
C9_RoleFixed ==
    /\ \A i \in DOMAIN users :
           get_role(users[i]) =
               (IF users[i].cls = "AdminUser" THEN "ADMIN" ELSE "REGULAR")
    /\ last.op = "get_role" =>
           last.outcome =
               Return(StrValue(IF users[last.self].cls = "AdminUser"
                               THEN "ADMIN" ELSE "REGULAR"))
    /\ (last.op = "delete_user" /\ last.via = "method") =>
           last.outcome # Raise("PermissionError")

\* A deactivated AdminUser has called its own delete_user(), beside a
\* RegularUser.
C9_Witness ==
    /\ last.op = "delete_user"
    /\ last.via = "method"
    /\ users[last.self].cls = "AdminUser"
    /\ ~users[last.self].active
    /\ \E i \in DOMAIN users : users[i].cls = "RegularUser"

C10_CountIsActive ==
    /\ active_user_count = Cardinality({i \in DOMAIN users : users[i].active})
    /\ active_user_count >= 0

C10_FailedParse ==
    (last'.op = "from_string" /\ last'.outcome.kind = "raise") =>
        /\ active_user_count' = active_user_count
        /\ users' = users

\* C10: active_user_count is always the number of constructed instances whose
\* active flag is true, hence never negative, and a from_string that raises
\* leaves the count and the instances as they were.
C10_CountMatchesActive == [](C10_CountIsActive) /\ [][C10_FailedParse]_vars

\* from_string has failed while one of two instances is active.
C10_Witness ==
    /\ last.op = "from_string"
    /\ last.outcome.kind = "raise"
    /\ Len(users) = 2
    /\ active_user_count = 1

----------------------------------------------------------------------------
(* Properties, checked under SpecParse *)

C4_Commas(s) == {i \in 1..Len(s) : s[i] = ","}

C4_Min(S) == CHOOSE x \in S : \A y \in S : x <= y

C4_Max(S) == CHOOSE x \in S : \A y \in S : y <= x

\* The three fields of a text with exactly two commas.
C4_Field1(s) == SubSeq(s, 1, C4_Min(C4_Commas(s)) - 1)

C4_Field2(s) == SubSeq(s, C4_Min(C4_Commas(s)) + 1, C4_Max(C4_Commas(s)) - 1)

C4_Field3(s) == SubSeq(s, C4_Max(C4_Commas(s)) + 1, Len(s))

\* s is blanks, an optional sign, decimal digits (at least one), blanks.
C4_IsInteger(s) ==
    \E i \in 1..Len(s) : \E j \in i..Len(s) :
        /\ \A k \in 1..(i - 1) : s[k] = " "
        /\ \A k \in (j + 1)..Len(s) : s[k] = " "
        /\ \A k \in (i + 1)..j : s[k] \in Digits
        /\ \/ s[i] \in Digits
           \/ s[i] \in {"+", "-"} /\ j > i

RECURSIVE C4_Decimal(_)
C4_Decimal(s) ==
    IF s = <<>> THEN 0
    ELSE 10 * C4_Decimal(SubSeq(s, 1, Len(s) - 1)) + DigitValue(s[Len(s)])

\* The number an integer text denotes.
C4_Number(s) ==
    LET d == SelectSeq(s, LAMBDA c : c \in Digits)
    IN IF \E k \in 1..Len(s) : s[k] = "-" THEN 0 - C4_Decimal(d) ELSE C4_Decimal(d)

C4_WellFormed(s) ==
    Cardinality(C4_Commas(s)) = 2 /\ C4_IsInteger(C4_Field1(s))

----------------------------------------------------------------------------
(* Properties, checked under SpecCalls *)

C5_Matches == {i \in DOMAIN input.users : input.users[i].user_id = input.user_id}

\* C5: find_user returns the first element of the list whose user_id is the
\* one asked for, having read no element after it and printed nothing; when
\* there is none it returns None and prints "User not found" once.
C5_FirstMatch ==
    last.op = "find_user" =>
        IF C5_Matches # {}
        THEN LET m == CHOOSE i \in C5_Matches : \A j \in C5_Matches : i <= j
             IN /\ last.outcome = Return(Ref(m))
                /\ last.out = <<>>
                /\ last.examined = m
        ELSE /\ last.outcome = Return(NoneValue)
             /\ last.out = <<"User not found">>

\* find_user has run on a list in which two users have the identifier.
C5_Witness ==
    /\ last.op = "find_user"
    /\ Cardinality(C5_Matches) = 2
    /\ input.users[1].name # input.users[2].name

C7_Count(seq, x) == Cardinality({i \in DOMAIN seq : seq[i] = x})

C7_Admitted ==
    C7_Count(input.stack, "require_admin") > 0 => get_role(input.self) = "ADMIN"

\* C7: with the gate admitting the caller, a function under any stack of the
\* decorators returns the value or raises the error the bare function does,
\* its body runs exactly once, and the only lines added to its output are the
\* decorators' notices: one per enabled log_execution, and one per
\* time_execution when the function returns.
C7_WrappersPreserve ==
    (last.op = "decorated" /\ C7_Admitted) =>
        /\ last.outcome = input.f.body.outcome
        /\ last.calls = 1
        /\ SelectSeq(last.out,
                     LAMBDA n : n \notin {"[LOG] Executing op", "[TIME] op took"})
               = input.f.body.out
        /\ C7_Count(last.out, "[LOG] Executing op")
               = C7_Count(input.stack, "log_execution(True)")
        /\ C7_Count(last.out, "[TIME] op took")
               = (IF last.outcome.kind = "return"
                  THEN C7_Count(input.stack, "time_execution") ELSE 0)

\* A function that returns a value has run under all three decorators, the
\* gate innermost.
C7_Witness ==
    /\ last.op = "decorated"
    /\ input.stack = <<"time_execution", "log_execution(True)", "require_admin">>
    /\ get_role(input.self) = "ADMIN"
    /\ last.outcome = Return(IntValue(7))

\* C8: two users compare equal exactly when their user_id are equal, and one
\* is less than the other exactly when its user_id is smaller, whatever their
\* names, emails, variants and active flags.
C8_CompareById ==
    /\ last.op = "__eq__" =>
           last.outcome =
               Return(BoolValue(input.self.user_id = input.other.user_id))
    /\ last.op = "__lt__" =>
           last.outcome =
               Return(BoolValue(input.self.user_id < input.other.user_id))

\* Two users that differ in everything but user_id have compared equal.
C8_Witness ==
    /\ last.op = "__eq__"
    /\ last.outcome = Return(BoolValue(TRUE))
    /\ input.self.name # input.other.name
    /\ input.self.email # input.other.email
    /\ input.self.cls # input.other.cls
    /\ input.self.active # input.other.active

----------------------------------------------------------------------------
(* Properties, checked under SpecRepo *)

\* C6: every generator of stream_users has yielded a prefix of the list in
\* the list's order, starts with nothing yielded, and is finished only after
\* yielding the whole list, whatever the other generators have done.
C6_FreshTraversal ==
    /\ \A k \in DOMAIN gens :
           /\ gens[k].yielded = SubSeq(input.users, 1, Len(gens[k].yielded))
           /\ gens[k].done => gens[k].yielded = input.users
    /\ last.op = "stream_users" =>
           gens[last.gen].yielded = <<>> /\ ~gens[last.gen].done
    /\ last.op = "next" =>
           IF last.outcome.kind = "raise"
           THEN gens[last.gen].yielded = input.users
           ELSE /\ gens[last.gen].yielded # <<>>
                /\ last.outcome =
                       Return(Ref(input.users[Len(gens[last.gen].yielded)]))

\* A second traversal of a three-element list of two different users has
\* finished while the first is part-way.
C6_Witness ==
    /\ Len(gens) = 2
    /\ Len(input.users) = 3
    /\ input.users[1] # input.users[2]
    /\ Len(gens[1].yielded) = 1
    /\ gens[2].done

====
